---- MODULE Spec2Model ----
(***************************************************************************)
(* Signaling relay of mini-gmeet-backend: RoomManager (room_manager.py)    *)
(* and signaling_endpoint (signaling.py).                                  *)
(*                                                                         *)
(* One asyncio task runs signaling_endpoint per accepted connection.  A    *)
(* task runs without interruption between two awaits; the awaits at which  *)
(* it can be suspended are websocket.accept(), websocket.receive_text()    *)
(* and, inside RoomManager.broadcast and RoomManager.send_to,              *)
(* websocket.send_text().  Every action below is one such uninterrupted    *)
(* run: from a resumption up to the next suspension.                       *)
(*                                                                         *)
(* self.rooms[room_id] is a Python dict.  It is modelled as CPython keeps  *)
(* it: an array of entries in insertion order in which a deleted entry     *)
(* leaves a hole, an overwritten key keeps its place and a new key is      *)
(* appended.  The keys table of a dict created by {} holds five entries    *)
(* before it is rebuilt; NumConns stays within that, so no rebuild occurs. *)
(***************************************************************************)
EXTENDS Integers, Sequences, FiniteSets, TLC

\* ---------------------------------------------------------------- bounds
NumConns == 3     \* connections accepted when no frame is received
RelayConns == 2   \* connections accepted when frames are received
MaxRecv == 2      \* frames received, over all connections

\* ------------------------------------------------------------ identifiers
RoomIds == <<"r1", "r2">>
UserIds == <<"u1", "u2", "u3">>
Conns == 1..NumConns
NoConn == 0

Range(s) == {s[i] : i \in DOMAIN s}

\* ------------------------------------------------------------ JSON values
Str(s) == [t |-> "str", v |-> s]
Null == [t |-> "null", v |-> ""]
ListVal == [t |-> "list", v |-> ""]

\* a text frame: not JSON at all, a JSON array, or a JSON object written as
\* its sequence of "key": value members (a key may occur more than once)
Garbage == [kind |-> "garbage", pairs |-> <<>>]
ArrayText == [kind |-> "array", pairs |-> <<>>]
ObjectText(ps) == [kind |-> "object", pairs |-> ps]
NoText == [kind |-> "none", pairs |-> <<>>]

\* dict built by json.loads from an object: members in order of first
\* occurrence of the key, the value of a repeated key is its last one
RECURSIVE LoadPairs(_, _)
LoadPairs(ps, acc) ==
    IF ps = <<>> THEN acc
    ELSE LET k == ps[1][1]
             v == ps[1][2]
             hit == {i \in DOMAIN acc : acc[i][1] = k}
         IN  LoadPairs(Tail(ps),
                 IF hit = {} THEN Append(acc, <<k, v>>)
                 ELSE [i \in DOMAIN acc |-> IF i \in hit THEN <<k, v>> ELSE acc[i]])

json_loads(text) == LoadPairs(text.pairs, <<>>)

\* json.dumps of a dict: its members in dict order
json_dumps(message) == ObjectText(message)

\* dict.get(key): the value, None when the key is missing
Get(message, key) ==
    LET hit == {i \in DOMAIN message : message[i][1] = key}
    IN  IF hit = {} THEN Null ELSE message[CHOOSE i \in hit : TRUE][2]

Offer(target, data) ==
    ObjectText(<<<<"type", Str("offer")>>, <<"from", Str("u1")>>,
                 <<"target", target>>, <<"data", Str(data)>>>>)

\* the frames a peer sends
Texts ==
    {Offer(Str(UserIds[i]), "d1") : i \in DOMAIN UserIds}
    \cup {Offer(Str(""), "d1"), Offer(ListVal, "d1"),
          ObjectText(<<<<"type", Str("offer")>>, <<"from", Str("u1")>>,
                       <<"data", Str("d1")>>>>),
          ObjectText(<<<<"target", Str("u1")>>, <<"type", Str("answer")>>,
                       <<"from", Str("u2")>>, <<"target", Str("u2")>>,
                       <<"data", Str("d2")>>>>),
          Garbage, ArrayText}

\* messages built by RoomManager.connect / RoomManager.disconnect
JoinedMessage(user) == <<<<"type", Str("user-joined")>>, <<"from", Str(user)>>>>
LeftMessage(user) == <<<<"type", Str("user-left")>>, <<"from", Str(user)>>>>

\* ------------------------------------------------------------------ state
VARIABLES
    rooms,        \* RoomManager.rooms: room id -> entries of the room's dict
    room_id,      \* per connection: path parameter room_id
    user_id,      \* per connection: path parameter user_id
    pc,           \* per connection: where its task is
    err,          \* per connection: exception that left signaling_endpoint
    transport,    \* per connection: state of the peer's channel
    it,           \* per connection: dict iterator of the suspended broadcast
    inbox,        \* per connection: frames written to it, with the writing task
    nDisc,        \* per connection: calls of room_manager.disconnect it made
    joinTargets,  \* per connection: connections in the room when it joined
    leaveTargets, \* per connection: connections in the room when it left
    lastOp,       \* per room and user: last registry operation
    nRecv,        \* frames received so far, over all connections
    nextConn,     \* next connection to be accepted
    frame         \* the frame received in the step just taken, and by whom

vars == <<rooms, room_id, user_id, pc, err, transport, it, inbox, nDisc,
          joinTargets, leaveTargets, lastOp, nRecv, nextConn, frame>>

\* ------------------------------------------------------- the room's dict
Hole == [uid |-> "", ws |-> NoConn]
IsLive(e) == e.ws # NoConn
LiveCount(slots) == Cardinality({i \in DOMAIN slots : IsLive(slots[i])})
Keys(slots) == {slots[i].uid : i \in {j \in DOMAIN slots : IsLive(slots[j])}}
Values(slots) == {slots[i].ws : i \in {j \in DOMAIN slots : IsLive(slots[j])}}
IndexOf(slots, user) == {i \in DOMAIN slots : IsLive(slots[i]) /\ slots[i].uid = user}

\* SetItem with a slip: a key that is present gets a second entry
SetItemAppend(slots, user, ws) == Append(slots, [uid |-> user, ws |-> ws])

\* d[user] = ws
SetItem(slots, user, ws) ==
    IF IndexOf(slots, user) = {}
    THEN Append(slots, [uid |-> user, ws |-> ws])
    ELSE [i \in DOMAIN slots |->
            IF i \in IndexOf(slots, user) THEN [uid |-> user, ws |-> ws] ELSE slots[i]]

\* del d[user]
DelItem(slots, user) ==
    [i \in DOMAIN slots |-> IF i \in IndexOf(slots, user) THEN Hole ELSE slots[i]]

\* d[user]
GetItem(slots, user) == slots[CHOOSE i \in IndexOf(slots, user) : TRUE].ws

\* iter(d.items())
NewIter(slots) == [pos |-> 1, used |-> LiveCount(slots), len |-> LiveCount(slots)]
NoIter == [pos |-> 0, used |-> 0, len |-> 0]

\* next() on the items iterator
IterNext(slots, iter) ==
    IF iter.used # LiveCount(slots)
    THEN [res |-> "error", it |-> NoIter, uid |-> "", ws |-> NoConn]
    ELSE LET rest == {i \in DOMAIN slots : i >= iter.pos /\ IsLive(slots[i])}
         IN  IF rest = {}
             THEN [res |-> "stop", it |-> NoIter, uid |-> "", ws |-> NoConn]
             ELSE IF iter.len = 0
             THEN [res |-> "error", it |-> NoIter, uid |-> "", ws |-> NoConn]
             ELSE LET i == CHOOSE j \in rest : \A k \in rest : j <= k
                  IN  [res |-> "item",
                       it |-> [pos |-> i + 1, used |-> iter.used, len |-> iter.len - 1],
                       uid |-> slots[i].uid, ws |-> slots[i].ws]

\* ---------------------------------------------------------- RoomManager
Members(r) == IF r \in DOMAIN rooms THEN Keys(rooms[r]) ELSE {}

Lookup(r, user) ==
    IF r \in DOMAIN rooms /\ IndexOf(rooms[r], user) # {}
    THEN GetItem(rooms[r], user) ELSE NoConn


\* Register with a slip: the room's dict is created anew on every connect
RegisterFresh(rms, r, user, ws) ==
    [x \in DOMAIN rms \cup {r} |-> IF x = r THEN SetItem(<<>>, user, ws) ELSE rms[x]]

\* RoomManager.connect, lines 10-12
Register(rms, r, user, ws) ==
    LET d == IF r \in DOMAIN rms THEN rms[r] ELSE <<>>
    IN  [x \in DOMAIN rms \cup {r} |-> IF x = r THEN SetItem(d, user, ws) ELSE rms[x]]

\* IsRegistered with a slip: only the room is tested
IsRegisteredRoomOnly(rms, r, user) == r \in DOMAIN rms

\* the test of RoomManager.disconnect, line 20
IsRegistered(rms, r, user) == r \in DOMAIN rms /\ IndexOf(rms[r], user) # {}

\* RoomManager.disconnect, lines 20-21
Unregister(rms, r, user) ==
    IF IsRegistered(rms, r, user) THEN [rms EXCEPT ![r] = DelItem(@, user)] ELSE rms

\* the for loop of RoomManager.broadcast up to its next send_text: the next
\* entry whose key is not the excluded one, the end of the dict, or the
\* RuntimeError of an iterator whose dict was changed
RECURSIVE NextRecipient(_, _, _)
NextRecipient(slots, iter, exclude) ==
    LET n == IterNext(slots, iter)
    IN  IF n.res = "item" /\ n.uid = exclude
        THEN NextRecipient(slots, n.it, exclude)
        ELSE n

\* ws.send_text on a connection: raises unless the channel is up
CanSend(up, ws) == ws \in up

\* RoomManager.broadcast from a resumption to its next suspension, return or
\* exception; up is the set of connections whose channel is up
Broadcast(slots, iter, exclude, up) ==
    LET n == NextRecipient(slots, iter, exclude)
    IN  CASE n.res = "stop" -> [res |-> "returned", it |-> NoIter, to |-> NoConn]
          [] n.res = "error" -> [res |-> "iter_error", it |-> NoIter, to |-> NoConn]
          [] n.res = "item" /\ CanSend(up, n.ws) ->
                 [res |-> "suspended", it |-> n.it, to |-> n.ws]
          [] OTHER -> [res |-> "send_error", it |-> NoIter, to |-> NoConn]

\* SendTo with a slip: the entry is read without the membership test, so a
\* target that is not registered raises KeyError
SendToStrict(rms, r, target, up) ==
    CASE target.t = "list" -> [res |-> "raise", to |-> NoConn]
      [] target.t = "str" /\ IsRegistered(rms, r, target.v) ->
             IF CanSend(up, GetItem(rms[r], target.v))
             THEN [res |-> "sent", to |-> GetItem(rms[r], target.v)]
             ELSE [res |-> "raise", to |-> NoConn]
      [] OTHER -> [res |-> "raise", to |-> NoConn]

\* SendTo with a slip: a target that is not in the sender's room is looked up
\* in the other rooms
SendToAnyRoom(rms, r, target, up) ==
    LET others == {x \in DOMAIN rms : target.t = "str" /\ IsRegistered(rms, x, target.v)}
        x == IF r \in others THEN r ELSE CHOOSE y \in others : TRUE
    IN  CASE r \notin DOMAIN rms -> [res |-> "miss", to |-> NoConn]
          [] target.t = "list" -> [res |-> "raise", to |-> NoConn]
          [] target.t = "str" /\ others # {} ->
                 IF CanSend(up, GetItem(rms[x], target.v))
                 THEN [res |-> "sent", to |-> GetItem(rms[x], target.v)]
                 ELSE [res |-> "raise", to |-> NoConn]
          [] OTHER -> [res |-> "miss", to |-> NoConn]

\* RoomManager.send_to up to the suspension in send_text: the room is tested
\* first, then the key, which raises TypeError when it cannot be hashed
SendTo(rms, r, target, up) ==
    CASE r \notin DOMAIN rms -> [res |-> "miss", to |-> NoConn]
      [] target.t = "list" -> [res |-> "raise", to |-> NoConn]
      [] target.t = "str" /\ IsRegistered(rms, r, target.v) ->
             IF CanSend(up, GetItem(rms[r], target.v))
             THEN [res |-> "sent", to |-> GetItem(rms[r], target.v)]
             ELSE [res |-> "raise", to |-> NoConn]
      [] OTHER -> [res |-> "miss", to |-> NoConn]

\* HandleText with a slip: a frame that does not decode is skipped and the
\* loop goes on
HandleTextSkip(rms, r, text, up) ==
    CASE text.kind = "garbage" -> [res |-> "miss", to |-> NoConn]
      [] text.kind = "array" -> [res |-> "miss", to |-> NoConn]
      [] OTHER -> SendTo(rms, r, Get(json_loads(text), "target"), up)

\* the body of the receive loop of signaling_endpoint for one frame
HandleText(rms, r, text, up) ==
    CASE text.kind = "garbage" -> [res |-> "raise", to |-> NoConn]
      [] text.kind = "array" -> [res |-> "raise", to |-> NoConn]
      [] OTHER -> SendTo(rms, r, Get(json_loads(text), "target"), up)

\* Relayed with a slip: the routing field is taken out of the relayed frame
RelayedNoTarget(text) ==
    json_dumps(SelectSeq(json_loads(text), LAMBDA m : m[1] # "target"))

\* the frame send_to writes for a received frame
Relayed(text) == json_dumps(json_loads(text))

\* ---------------------------------------------------------------- tasks
Up == {c \in Conns : transport[c] = "up"}

\* where the task is after a step of a broadcast
PcAfter(phase, res) ==
    CASE res = "suspended" -> phase
      [] res = "returned" /\ phase = "join" -> "open"
      [] OTHER -> "done"

ErrAfter(res) ==
    CASE res = "send_error" -> "send"
      [] res = "iter_error" -> "iter"
      [] OTHER -> "none"

\* the channel is closed by the server when signaling_endpoint ends
TransportAfter(t, newpc) == IF newpc = "done" /\ t = "up" THEN "server_closed" ELSE t

\* Deliver with a slip: the frame goes in front of the frames written before
DeliverFront(box, to, text, c) ==
    IF to = NoConn THEN box
    ELSE [box EXCEPT ![to] = <<[text |-> text, via |-> c]>> \o @]

\* send_text on connection to by task c: the frame follows those written before
Deliver(box, to, text, c) ==
    IF to = NoConn THEN box
    ELSE [box EXCEPT ![to] = Append(@, [text |-> text, via |-> c])]

NoFrame == [conn |-> NoConn, text |-> NoText]

Init ==
    /\ rooms = <<>>
    /\ room_id = [c \in Conns |-> ""]
    /\ user_id = [c \in Conns |-> ""]
    /\ pc = [c \in Conns |-> "idle"]
    /\ err = [c \in Conns |-> "none"]
    /\ transport = [c \in Conns |-> "none"]
    /\ it = [c \in Conns |-> NoIter]
    /\ inbox = [c \in Conns |-> <<>>]
    /\ nDisc = [c \in Conns |-> 0]
    /\ joinTargets = [c \in Conns |-> {}]
    /\ leaveTargets = [c \in Conns |-> {}]
    /\ lastOp = [r \in Range(RoomIds) |-> [u \in Range(UserIds) |-> "none"]]
    /\ nRecv = 0
    /\ nextConn = 1
    /\ frame = NoFrame

\* identifiers are opaque: a new connection names a room or a user already
\* seen, or the first one not seen yet
RoomChoices ==
    LET seen == {room_id[c] : c \in {d \in Conns : d < nextConn}}
    IN  {RoomIds[i] : i \in {j \in DOMAIN RoomIds : j <= Cardinality(seen) + 1}}
UserChoices ==
    LET seen == {user_id[c] : c \in {d \in Conns : d < nextConn}}
    IN  {UserIds[i] : i \in {j \in DOMAIN UserIds : j <= Cardinality(seen) + 1}}

\* signaling_endpoint starts for a new connection and is suspended in
\* websocket.accept(), line 8
Accept(c, r, user) ==
    /\ c = nextConn
    /\ pc[c] = "idle"
    /\ pc' = [pc EXCEPT ![c] = "accepting"]
    /\ transport' = [transport EXCEPT ![c] = "up"]
    /\ room_id' = [room_id EXCEPT ![c] = r]
    /\ user_id' = [user_id EXCEPT ![c] = user]
    /\ nextConn' = nextConn + 1
    /\ frame' = NoFrame
    /\ UNCHANGED <<rooms, err, it, inbox, nDisc, joinTargets, leaveTargets,
                   lastOp, nRecv>>

\* accept() returns; signaling_endpoint line 9: RoomManager.connect up to the
\* first suspension of its broadcast
Connect(c) ==
    /\ pc[c] = "accepting"
    /\ LET r == room_id[c]
           user == user_id[c]
           rms == Register(rooms, r, user, c)
           b == Broadcast(rms[r], NewIter(rms[r]), user, Up)
           newpc == PcAfter("join", b.res)
       IN  /\ rooms' = rms
           /\ pc' = [pc EXCEPT ![c] = newpc]
           /\ err' = [err EXCEPT ![c] = ErrAfter(b.res)]
           /\ it' = [it EXCEPT ![c] = b.it]
           /\ inbox' = Deliver(inbox, b.to, json_dumps(JoinedMessage(user)), c)
           /\ transport' = [transport EXCEPT ![c] = TransportAfter(@, newpc)]
           /\ joinTargets' = [joinTargets EXCEPT ![c] = Values(rms[r]) \ {c}]
           /\ lastOp' = [lastOp EXCEPT ![r][user] = "register"]
    /\ frame' = NoFrame
    /\ UNCHANGED <<room_id, user_id, nDisc, leaveTargets, nRecv, nextConn>>

\* a broadcast suspended in send_text resumes
Resume(c) ==
    /\ pc[c] \in {"join", "leave"}
    /\ LET b == Broadcast(rooms[room_id[c]], it[c],
                          IF pc[c] = "join" THEN user_id[c] ELSE "", Up)
           newpc == PcAfter(pc[c], b.res)
           m == IF pc[c] = "join" THEN JoinedMessage(user_id[c])
                ELSE LeftMessage(user_id[c])
       IN  /\ pc' = [pc EXCEPT ![c] = newpc]
           /\ err' = [err EXCEPT ![c] = ErrAfter(b.res)]
           /\ it' = [it EXCEPT ![c] = b.it]
           /\ inbox' = Deliver(inbox, b.to, json_dumps(m), c)
           /\ transport' = [transport EXCEPT ![c] = TransportAfter(@, newpc)]
    /\ frame' = NoFrame
    /\ UNCHANGED <<rooms, room_id, user_id, nDisc, joinTargets, leaveTargets,
                   lastOp, nRecv, nextConn>>

\* signaling_endpoint, lines 17-20: the loop is left, RoomManager.disconnect
\* runs up to the first suspension of its broadcast
Leave(c) ==
    LET r == room_id[c]
        rms == Unregister(rooms, r, user_id[c])
        b == IF IsRegistered(rooms, r, user_id[c])
             THEN Broadcast(rms[r], NewIter(rms[r]), "", Up)
             ELSE [res |-> "returned", it |-> NoIter, to |-> NoConn]
        newpc == PcAfter("leave", b.res)
    IN  /\ rooms' = rms
        /\ pc' = [pc EXCEPT ![c] = newpc]
        /\ err' = [err EXCEPT ![c] = ErrAfter(b.res)]
        /\ it' = [it EXCEPT ![c] = b.it]
        /\ inbox' = Deliver(inbox, b.to, json_dumps(LeftMessage(user_id[c])), c)
        /\ transport' = [transport EXCEPT ![c] = TransportAfter(@, newpc)]
        /\ nDisc' = [nDisc EXCEPT ![c] = @ + 1]
        /\ leaveTargets' = [leaveTargets EXCEPT ![c] = Values(rms[r])]
        /\ lastOp' = [lastOp EXCEPT ![r][user_id[c]] = "unregister"]

\* receive_text returns a frame: lines 13-16 up to the suspension in the
\* send_text of send_to, or back to receive_text when nothing is written, and
\* lines 17-20 when they raise; a frame the peer sent before it closed its
\* channel is still read after the close
Receive(c, text) ==
    /\ pc[c] = "open"
    /\ transport[c] \in {"up", "peer_closed"}
    /\ nRecv < MaxRecv
    /\ LET h == HandleText(rooms, room_id[c], text, Up)
       IN  IF h.res = "raise"
           THEN Leave(c)
           ELSE /\ inbox' = Deliver(inbox, h.to, Relayed(text), c)
                /\ pc' = [pc EXCEPT ![c] = IF h.res = "sent" THEN "relay" ELSE "open"]
                /\ UNCHANGED <<rooms, err, it, transport, nDisc,
                               leaveTargets, lastOp>>
    /\ nRecv' = nRecv + 1
    /\ frame' = [conn |-> c, text |-> text]
    /\ UNCHANGED <<room_id, user_id, joinTargets, nextConn>>

\* the send_text of send_to resumes: line 16 returns, back to receive_text
SendToReturns(c) ==
    /\ pc[c] = "relay"
    /\ pc' = [pc EXCEPT ![c] = "open"]
    /\ frame' = NoFrame
    /\ UNCHANGED <<rooms, room_id, user_id, err, transport, it, inbox, nDisc,
                   joinTargets, leaveTargets, lastOp, nRecv, nextConn>>

\* the peer closes its channel, or the channel breaks
PeerClose(c) ==
    /\ pc[c] \in {"accepting", "join", "open", "relay"}
    /\ transport[c] = "up"
    /\ transport' = [transport EXCEPT ![c] = "peer_closed"]
    /\ frame' = NoFrame
    /\ UNCHANGED <<rooms, room_id, user_id, pc, err, it, inbox, nDisc,
                   joinTargets, leaveTargets, lastOp, nRecv, nextConn>>

\* receive_text raises on the closed channel: lines 17-20
ReceiveClosed(c) ==
    /\ pc[c] = "open"
    /\ transport[c] = "peer_closed"
    /\ Leave(c)
    /\ frame' = NoFrame
    /\ UNCHANGED <<room_id, user_id, joinTargets, nRecv, nextConn>>

\* connections that join, leave and exchange frames
Next ==
    \/ \E c \in 1..RelayConns, r \in RoomChoices, u \in UserChoices : Accept(c, r, u)
    \/ \E c \in Conns : Connect(c)
    \/ \E c \in Conns : Resume(c)
    \/ \E c \in Conns, text \in Texts : Receive(c, text)
    \/ \E c \in Conns : SendToReturns(c)
    \/ \E c \in Conns : PeerClose(c)
    \/ \E c \in Conns : ReceiveClosed(c)

Spec == Init /\ [][Next]_vars

\* more connections, that join and leave and send nothing
NextMembers ==
    \/ \E c \in Conns, r \in RoomChoices, u \in UserChoices : Accept(c, r, u)
    \/ \E c \in Conns : Connect(c)
    \/ \E c \in Conns : Resume(c)
    \/ \E c \in Conns : PeerClose(c)
    \/ \E c \in Conns : ReceiveClosed(c)

SpecMembers == Init /\ [][NextMembers]_vars

TypeOK ==
    /\ DOMAIN rooms \subseteq Range(RoomIds)
    /\ pc \in [Conns -> {"idle", "accepting", "join", "open", "relay", "leave", "done"}]
    /\ err \in [Conns -> {"none", "send", "iter"}]
    /\ transport \in [Conns -> {"none", "up", "peer_closed", "server_closed"}]
    /\ nRecv \in 0..MaxRecv

\* ---------------------------------------------------------- properties
TargetOf(text) == Get(json_loads(text), "target")

\* a frame that is not a JSON object with a usable target
Malformed(text) == text.kind # "object" \/ TargetOf(text).t = "list"

Fields == {"type", "from", "target", "data"}

SameFields(t1, t2) ==
    \A k \in Fields : Get(json_loads(t1), k) = Get(json_loads(t2), k)

Closed(c) == pc[c] \in {"leave", "done"}

\* c is in the receive loop: in receive_text or in the send_text of send_to
InLoop(c) == pc[c] \in {"open", "relay"}

\* entries written to connection d in the step
NewEntries(d) == {i \in DOMAIN inbox'[d] : i > Len(inbox[d])}

\* C1 (directed relay): when a connection receives a frame whose target is
\* registered in its room, the frame is written, with type, from, target and
\* data as received, to the connection registered under that target, where it
\* arrives when that connection's channel is up, and nothing else is written
\* in that case; the frame is written to no other connection.
DirectedRelay ==
    [][\A c \in Conns : \A q \in Conns :
        (/\ frame'.conn = c
         /\ TargetOf(frame'.text).t = "str"
         /\ IsRegistered(rooms, room_id[c], TargetOf(frame'.text).v)
         /\ q = Lookup(room_id[c], TargetOf(frame'.text).v))
        => /\ \A d \in Conns : \A i \in NewEntries(d) :
                  SameFields(inbox'[d][i].text, frame'.text)
                      => (d = q /\ transport[q] = "up")
           /\ transport[q] = "up" =>
                  /\ \A d \in Conns \ {q} : inbox'[d] = inbox[d]
                  /\ Len(inbox'[q]) = Len(inbox[q]) + 1
                  /\ SubSeq(inbox'[q], 1, Len(inbox[q])) = inbox[q]
                  /\ inbox'[q][Len(inbox'[q])].via = c
                  /\ inbox'[q][Len(inbox'[q])].text.kind = "object"
                  /\ SameFields(inbox'[q][Len(inbox'[q])].text, frame'.text)]_vars

\* C1 witness: a frame sent twice its target key was relayed to the
\* connection of another participant of the room
DirectedRelayWitness ==
    \E c \in Conns : \E q \in Conns \ {c} :
        /\ frame.conn = c
        /\ Len(frame.text.pairs) > Len(json_loads(frame.text))
        /\ q = Lookup(room_id[c], TargetOf(frame.text).v)
        /\ inbox[q] # <<>>
        /\ inbox[q][Len(inbox[q])].via = c
        /\ SameFields(inbox[q][Len(inbox[q])].text, frame.text)

\* C9 (routing miss): a frame whose target is absent, empty or not registered
\* in the sender's room changes nothing: no connection is written, the
\* registry is unchanged, and the sender stays open without an error.
RoutingMiss ==
    [][\A c \in Conns :
        (/\ frame'.conn = c
         /\ frame'.text.kind = "object"
         /\ \/ TargetOf(frame'.text).t = "null"
            \/ /\ TargetOf(frame'.text).t = "str"
               /\ ~IsRegistered(rooms, room_id[c], TargetOf(frame'.text).v))
        => /\ inbox' = inbox
           /\ rooms' = rooms
           /\ pc' = pc /\ pc[c] = "open"
           /\ err' = err
           /\ transport' = transport
           /\ nDisc' = nDisc]_vars

\* C9 witness: a frame naming a participant registered only in another room
\* was received and its sender is still open and registered
RoutingMissWitness ==
    \E c \in Conns : \E q \in Conns \ {c} :
        /\ frame.conn = c
        /\ TargetOf(frame.text) = Str(user_id[q])
        /\ room_id[q] # room_id[c]
        /\ Lookup(room_id[q], user_id[q]) = q
        /\ ~IsRegistered(rooms, room_id[c], user_id[q])
        /\ pc[c] = "open"
        /\ Lookup(room_id[c], user_id[c]) = c
        /\ inbox[q] = <<>>

\* the first connection a broadcast over the entries writes to
FirstValue(slots) ==
    LET live == {i \in DOMAIN slots : IsLive(slots[i])}
    IN  IF live = {} THEN NoConn
        ELSE slots[CHOOSE i \in live : \A k \in live : i <= k].ws

\* C4 (cleanup on every exit path): a malformed frame closes the connection
\* that received it; every connection that leaves Open, for whatever reason,
\* is Closed after one call of disconnect, its key is no longer registered
\* and, when the key was registered, the user-left broadcast has begun with
\* the write to its first recipient; a Closed connection stays Closed, makes
\* no further call of disconnect and handles no further frame.
CleanupOnExit ==
    [][\A c \in Conns :
        /\ (frame'.conn = c /\ Malformed(frame'.text)) => (pc[c] = "open" /\ Closed(c)')
        /\ (InLoop(c) /\ ~InLoop(c)') =>
              /\ Closed(c)'
              /\ nDisc[c] = 0 /\ nDisc'[c] = 1
              /\ ~IsRegistered(rooms', room_id[c], user_id[c])
              /\ IsRegistered(rooms, room_id[c], user_id[c]) =>
                    LET q == FirstValue(rooms'[room_id[c]])
                    IN  (q # NoConn /\ transport[q] = "up") =>
                            inbox'[q] = Append(inbox[q],
                                [text |-> json_dumps(LeftMessage(user_id[c])), via |-> c])
        /\ Closed(c) => (Closed(c)' /\ nDisc'[c] = nDisc[c] /\ frame'.conn # c)
        /\ pc[c] \in {"idle", "accepting", "join"} => nDisc'[c] = 0]_vars

\* C4 witness: a connection closed by a frame that is not JSON has made its
\* one call of disconnect and another connection was told that it left
CleanupOnExitWitness ==
    \E c \in Conns : \E q \in Conns \ {c} :
        /\ frame.conn = c
        /\ frame.text = Garbage
        /\ Closed(c)
        /\ nDisc[c] = 1
        /\ ~IsRegistered(rooms, room_id[c], user_id[c])
        /\ inbox[q] # <<>>
        /\ inbox[q][Len(inbox[q])] =
               [text |-> json_dumps(LeftMessage(user_id[c])), via |-> c]

\* C8 (membership exactness): the members of a room are exactly the
\* participants whose last registry operation on the room was a register, and
\* each of them has one entry.
MembershipExact ==
    \A r \in Range(RoomIds) :
        /\ Members(r) = {u \in Range(UserIds) : lastOp[r][u] = "register"}
        /\ r \in DOMAIN rooms => LiveCount(rooms[r]) = Cardinality(Keys(rooms[r]))

\* C8 witness: in one room a participant has left, another was registered
\* after that and a third is still registered from before
MembershipExactWitness ==
    \E r \in DOMAIN rooms :
        /\ \E u \in Range(UserIds) : lastOp[r][u] = "unregister"
        /\ \E i, j, k \in DOMAIN rooms[r] :
              /\ i < j /\ j < k
              /\ IsLive(rooms[r][i]) /\ ~IsLive(rooms[r][j]) /\ IsLive(rooms[r][k])

\* notifications of the given type that task c wrote to connection d
Notified(c, d, type) ==
    Cardinality({i \in DOMAIN inbox[d] :
        /\ inbox[d][i].via = c
        /\ Get(json_loads(inbox[d][i].text), "type") = Str(type)})

\* d can still be told: its channel is up and it is still registered
Reachable(d) == transport[d] = "up" /\ Lookup(room_id[d], user_id[d]) = d

JoinOver(c) == pc[c] \in {"open", "relay", "leave", "done"}
LeaveOver(c) == pc[c] = "done" /\ nDisc[c] = 1

\* C2 (join notification): once the join of a connection is over, every
\* connection that was registered in the room when it joined (and can still
\* be told) has received exactly one user-joined from it, and its own
\* connection none.
JoinNotifiesAll ==
    \A c \in Conns :
        JoinOver(c) =>
            /\ \A d \in joinTargets[c] : Reachable(d) => Notified(c, d, "user-joined") = 1
            /\ Notified(c, c, "user-joined") = 0

\* C3 (leave notification): once the leave of a connection is over, every
\* connection that remained in the room (and can still be told) has received
\* exactly one user-left from it, and the connection that left is no longer
\* in the registry.
LeaveNotifiesAll ==
    \A c \in Conns :
        LeaveOver(c) =>
            /\ \A d \in leaveTargets[c] : Reachable(d) => Notified(c, d, "user-left") = 1
            /\ c \notin Values(rooms[room_id[c]])

\* C5 (broadcast partial failure): a broadcast in which a write failed has
\* still delivered the notification to every other recipient that can be told.
BroadcastSurvivesFailedWrite ==
    \A c \in Conns :
        err[c] = "send" =>
            IF nDisc[c] = 0
            THEN \A d \in joinTargets[c] : Reachable(d) => Notified(c, d, "user-joined") = 1
            ELSE \A d \in leaveTargets[c] : Reachable(d) => Notified(c, d, "user-left") = 1

\* C6 (failure isolation): a connection leaves Open only when its own channel
\* is closed or broken or when it received a malformed frame itself; the
\* failure of a write to another connection does not close it.
FailureIsolation ==
    [][\A c \in Conns :
        (InLoop(c) /\ ~InLoop(c)') =>
            \/ transport[c] # "up"
            \/ frame'.conn = c /\ Malformed(frame'.text)]_vars

\* C7 (linearizable membership under broadcast): a broadcast suspended
\* between two writes while another connection registers or unregisters in
\* the room completes without error.
BroadcastCompletes ==
    \A c \in Conns : err[c] # "iter"

\* connections whose handler has started
Accepted == {c \in Conns : pc[c] # "idle"}

\* C10 (concurrent joins): when connections with distinct participant
\* identifiers join and no peer closes its channel, every join completes
\* and, once all have, the members of each room are exactly the joined
\* participants.
ConcurrentJoins ==
    (/\ \A c \in Conns : transport[c] # "peer_closed"
     /\ \A c, d \in Accepted : (c # d /\ room_id[c] = room_id[d]) => user_id[c] # user_id[d])
    => /\ \A c \in Accepted : pc[c] \in {"accepting", "join", "open"} /\ err[c] = "none"
       /\ (\A c \in Accepted : pc[c] = "open") =>
              \A r \in DOMAIN rooms :
                  /\ Members(r) = {user_id[c] : c \in {d \in Accepted : room_id[d] = r}}
                  /\ LiveCount(rooms[r]) = Cardinality({d \in Accepted : room_id[d] = r})

\* c's handler is running and its channel has not been closed by the server
StillOpen(c) == pc[c] \in {"accepting", "join", "open", "relay"}

\* C11 (duplicate join replaces): when a connection registers under a key
\* that already has an entry, the room keeps the same members and the same
\* number of entries, the key now gives the later connection, and no error is
\* raised unless the write to another member fails; a connection that is
\* still open and no longer in the registry is written nothing, neither a
\* relayed frame nor a notification.
DuplicateJoinReplaces ==
    [][\A c \in Conns :
        /\ (/\ pc[c] = "accepting" /\ pc'[c] # "accepting"
            /\ Lookup(room_id[c], user_id[c]) # NoConn)
           => LET r == room_id[c]
                  a == Lookup(r, user_id[c])
              IN  /\ Keys(rooms'[r]) = Keys(rooms[r])
                  /\ LiveCount(rooms'[r]) = LiveCount(rooms[r])
                  /\ GetItem(rooms'[r], user_id[c]) = c
                  /\ a \notin Values(rooms'[r])
                  /\ inbox'[a] = inbox[a]
                  /\ err'[c] # "iter"
                  /\ err'[c] = "send" =>
                        \E d \in Values(rooms[r]) \ {a} : transport[d] # "up"
        /\ (StillOpen(c) /\ StillOpen(c)' /\ Lookup(room_id[c], user_id[c])' # c)
           => inbox'[c] = inbox[c]]_vars

\* C11 witness: a connection was replaced under its key and is still open
\* with its channel up; a frame for that key was relayed to the later
\* connection and the earlier one has been written nothing
DuplicateJoinReplacesWitness ==
    \E a \in Conns : \E b \in Conns \ {a} :
        /\ StillOpen(a) /\ transport[a] = "up"
        /\ room_id[a] = room_id[b] /\ user_id[a] = user_id[b]
        /\ Lookup(room_id[a], user_id[a]) = b
        /\ frame.conn # NoConn
        /\ TargetOf(frame.text) = Str(user_id[a])
        /\ inbox[b] # <<>>
        /\ SameFields(inbox[b][Len(inbox[b])].text, frame.text)
        /\ inbox[a] = <<>>

\* C12 (unregister is a safe no-op): a call of disconnect for a key that is
\* not registered raises nothing, leaves the registry unchanged and writes no
\* user-left; on every registry the program reaches, unregistering a key of
\* an unknown room or an absent participant gives the same registry, and
\* unregistering twice gives what unregistering once gives.
UnregisterNoOp ==
    [][/\ \A c \in Conns :
            (nDisc'[c] = nDisc[c] + 1 /\ Lookup(room_id[c], user_id[c]) = NoConn)
            => /\ rooms' = rooms
               /\ inbox' = inbox
               /\ err'[c] = "none"
               /\ pc'[c] = "done"
       /\ \A r \in Range(RoomIds) : \A u \in Range(UserIds) :
            /\ (r \notin DOMAIN rooms' \/ u \notin Keys(rooms'[r]))
                   => Unregister(rooms', r, u) = rooms'
            /\ Unregister(Unregister(rooms', r, u), r, u) = Unregister(rooms', r, u)]_vars

\* C12 witness: two connections had the same key; the first to leave removed
\* the entry and told a third member, the second left after it and its
\* disconnect found nothing: the third member, still reachable, has no
\* user-left from it
UnregisterNoOpWitness ==
    \E a \in Conns : \E c \in Conns \ {a} : \E d \in Conns \ {a, c} :
        /\ room_id[a] = room_id[c] /\ user_id[a] = user_id[c]
        /\ pc[a] = "done" /\ nDisc[a] = 1
        /\ pc[c] = "done" /\ nDisc[c] = 1 /\ err[c] = "none"
        /\ d \in leaveTargets[c]
        /\ Reachable(d)
        /\ Notified(a, d, "user-left") = 1
        /\ Notified(c, d, "user-left") = 0

\* C13 (per-sender ordering): the frames written to a connection stay in the
\* order in which they were written, and a frame that a connection receives
\* for a registered target whose channel is up is written after every frame
\* the same sender relayed to it before; so two frames of one sender for one
\* target arrive in the order in which the sender's connection received them.
PerSenderOrder ==
    [][/\ \A d \in Conns :
            /\ Len(inbox'[d]) >= Len(inbox[d])
            /\ SubSeq(inbox'[d], 1, Len(inbox[d])) = inbox[d]
       /\ \A c \in Conns : \A q \in Conns :
            (/\ frame'.conn = c
             /\ TargetOf(frame'.text).t = "str"
             /\ q = Lookup(room_id[c], TargetOf(frame'.text).v)
             /\ q # NoConn
             /\ transport[q] = "up")
            => /\ NewEntries(q) = {Len(inbox[q]) + 1}
               /\ inbox'[q][Len(inbox[q]) + 1].via = c
               /\ SameFields(inbox'[q][Len(inbox[q]) + 1].text, frame'.text)
               /\ \A i \in DOMAIN inbox'[q] :
                     (inbox'[q][i].via = c /\ i # Len(inbox[q]) + 1) => i <= Len(inbox[q])]_vars

\* C13 witness: a connection received two different frames for the same
\* target and the target's connection holds them in that order
PerSenderOrderWitness ==
    \E c \in Conns : \E q \in Conns \ {c} :
        /\ frame.conn = c
        /\ StillOpen(c) /\ StillOpen(q)
        /\ Lookup(room_id[c], TargetOf(frame.text).v) = q
        /\ \E i \in DOMAIN inbox[q] :
              /\ i + 1 = Len(inbox[q])
              /\ inbox[q][i].via = c
              /\ Get(json_loads(inbox[q][i].text), "type") = Str("offer")
              /\ Get(json_loads(inbox[q][i].text), "data") = Str("d1")
              /\ inbox[q][i + 1].via = c
              /\ Get(json_loads(inbox[q][i + 1].text), "data") = Str("d2")
              /\ SameFields(inbox[q][i + 1].text, frame.text)

\* C14 (no orphaned registry entries): every connection stored in the
\* registry belongs to a handler that has not ended.
NoOrphanedEntries ==
    \A r \in DOMAIN rooms : \A c \in Values(rooms[r]) : pc[c] # "done"

\* C15 (a closing connection removes only its own registration): when a
\* connection leaves while its key gives a later connection that is still
\* open, the registry is unchanged and no user-left is written.
LeaveRemovesOnlyOwnEntry ==
    [][\A a \in Conns : \A b \in Conns \ {a} :
        (/\ nDisc'[a] = nDisc[a] + 1
         /\ Lookup(room_id[a], user_id[a]) = b
         /\ StillOpen(b))
        => /\ rooms' = rooms
           /\ inbox' = inbox]_vars

\* the step is one of connection c: its task ran, or its peer closed
Acts(c) ==
    \/ pc'[c] # pc[c]
    \/ it'[c] # it[c]
    \/ frame'.conn = c
    \/ transport'[c] # transport[c]

\* C16 (cross-room isolation): a step of a connection of one room (join,
\* leave, resumed broadcast, received frame, closed channel or failed write)
\* leaves the dict of every other room as it is and writes nothing to a
\* connection of another room, also when its participant identifier is
\* registered in both rooms or a frame names a participant of another room.
CrossRoomIsolation ==
    [][\A c \in Conns : Acts(c) =>
        /\ \A r \in Range(RoomIds) \ {room_id'[c]} :
              /\ r \in DOMAIN rooms' <=> r \in DOMAIN rooms
              /\ r \in DOMAIN rooms => rooms'[r] = rooms[r]
        /\ \A d \in Conns :
              room_id'[d] # room_id'[c] => inbox'[d] = inbox[d]
        /\ \A d \in Conns : \A i \in NewEntries(d) :
              room_id'[inbox'[d][i].via] = room_id'[d]]_vars

\* C16 witness: the same participant identifier is registered in two rooms;
\* a frame for it received in one room was relayed there and the connection
\* of the other room has been written nothing
CrossRoomIsolationWitness ==
    \E c \in Conns : \E q \in Conns \ {c} :
        /\ frame.conn = c
        /\ room_id[c] # room_id[q]
        /\ user_id[c] = user_id[q]
        /\ TargetOf(frame.text) = Str(user_id[q])
        /\ Lookup(room_id[c], user_id[c]) = c
        /\ Lookup(room_id[q], user_id[q]) = q
        /\ transport[q] = "up"
        /\ inbox[c] # <<>>
        /\ inbox[c][Len(inbox[c])].via = c
        /\ SameFields(inbox[c][Len(inbox[c])].text, frame.text)
        /\ inbox[q] = <<>>

====
